---- MODULE Spec2Model ----
(***************************************************************************)
(* Model of src/src/main.py: a shopping-list tracker with a budget         *)
(* counter.  The store is two SQLite tables (shopping_list, budget); each  *)
(* HTTP handler is one action that runs its statements and renders the     *)
(* fragment it returns.                                                    *)
(*                                                                         *)
(* Text is a sequence of one-character strings, so that str.strip,         *)
(* str.replace, int() and float() are computed character by character.     *)
(* Decimal numbers (REAL columns, Python floats) are fixed-point integers  *)
(* counting units of 10^-FracDigits.                                       *)
(***************************************************************************)
EXTENDS Integers, Sequences, FiniteSets, TLC

\* ------------------------------------------------------------------ bounds
\* largest id AUTOINCREMENT may hand out to a shopping_list row
MaxId == 2
\* largest id AUTOINCREMENT may hand out to a budget row
MaxBudgetId == 2
\* number of POST /update/{item_id}/{field} requests handled
MaxEdits == 1
\* fractional decimal digits kept by the fixed-point numbers
FracDigits == 3

Scale == 10 ^ FracDigits
Cent == Scale \div 100

\* ------------------------------------------------------------------- text
\* the characters of the model's texts, in ascending code point order
Alphabet ==
    << " ", "$", "'", "+", "-", ".",
       "0", "1", "2", "3", "4", "5", "6", "7", "8", "9",
       "L", "P", "T",
       "a", "b", "c", "e", "i", "l", "m", "n", "o", "r", "s", "t", "w" >>

\* ord(c), up to an order-preserving renumbering
Ord(c) == CHOOSE i \in 1..Len(Alphabet) : Alphabet[i] = c

Digits == << "0", "1", "2", "3", "4", "5", "6", "7", "8", "9" >>

IsDigit(c) == \E i \in 1..10 : Digits[i] = c

DigitVal(c) == (CHOOSE i \in 1..10 : Digits[i] = c) - 1

\* Python str < str: lexicographic by code point, a proper prefix is smaller
RECURSIVE StrLess(_, _)
StrLess(a, b) ==
    IF b = << >> THEN FALSE
    ELSE IF a = << >> THEN TRUE
    ELSE IF Head(a) = Head(b) THEN StrLess(Tail(a), Tail(b))
    ELSE Ord(Head(a)) < Ord(Head(b))

RECURSIVE LStrip(_)
LStrip(s) == IF s # << >> /\ Head(s) = " " THEN LStrip(Tail(s)) ELSE s

RECURSIVE RStrip(_)
RStrip(s) ==
    IF s # << >> /\ s[Len(s)] = " " THEN RStrip(SubSeq(s, 1, Len(s) - 1)) ELSE s

\* str.strip()
Strip(s) == RStrip(LStrip(s))

\* str.replace("$", "")
RemoveDollar(s) == SelectSeq(s, LAMBDA c : c # "$")

AllDigits(s) == \A i \in 1..Len(s) : IsDigit(s[i])

\* value of a digit string read as a natural number
RECURSIVE DigitsVal(_)
DigitsVal(s) ==
    IF s = << >> THEN 0
    ELSE 10 * DigitsVal(SubSeq(s, 1, Len(s) - 1)) + DigitVal(s[Len(s)])

HasSign(s) == s # << >> /\ Head(s) \in {"+", "-"}

Unsigned(s) == IF HasSign(s) THEN Tail(s) ELSE s

Sign(s) == IF s # << >> /\ Head(s) = "-" THEN -1 ELSE 1

\* index of the first "." of s, 0 when there is none
DotAt(s) ==
    IF \E i \in 1..Len(s) : s[i] = "."
    THEN CHOOSE i \in 1..Len(s) : s[i] = "." /\ \A j \in 1..(i - 1) : s[j] # "."
    ELSE 0

\* the first FracDigits fractional digits, padded with zeros on the right
RECURSIVE PadFrac(_)
PadFrac(f) ==
    IF Len(f) >= FracDigits THEN SubSeq(f, 1, FracDigits)
    ELSE PadFrac(Append(f, "0"))

\* int(s): surrounding blanks, an optional sign, one or more digits;
\* ok = FALSE stands for ValueError
ParseInt(s) ==
    LET t == Strip(s)
        u == Unsigned(t)
    IN  IF u # << >> /\ AllDigits(u)
        THEN [ok |-> TRUE, val |-> Sign(t) * DigitsVal(u)]
        ELSE [ok |-> FALSE, val |-> 0]

\* float(s) for plain decimal literals: surrounding blanks, an optional
\* sign, digits with at most one "." and at least one digit;
\* ok = FALSE stands for ValueError
ParseFloat(s) ==
    LET t == Strip(s)
        u == Unsigned(t)
        d == DotAt(u)
        ip == IF d = 0 THEN u ELSE SubSeq(u, 1, d - 1)
        fp == IF d = 0 THEN << >> ELSE SubSeq(u, d + 1, Len(u))
    IN  IF AllDigits(ip) /\ AllDigits(fp) /\ Len(ip) + Len(fp) > 0
        THEN [ok |-> TRUE,
              val |-> Sign(t) * (DigitsVal(ip) * Scale + DigitsVal(PadFrac(fp)))]
        ELSE [ok |-> FALSE, val |-> 0]

\* round(float(v), 2): the nearest multiple of a cent, a tie going to the
\* even cent
Round2(v) ==
    LET q == v \div Cent
        r == v % Cent
    IN  IF 2 * r < Cent THEN q * Cent
        ELSE IF 2 * r > Cent THEN (q + 1) * Cent
        ELSE IF q % 2 = 0 THEN q * Cent
        ELSE (q + 1) * Cent

\* -------------------------------------------------------------- text values
Empty == << >>
Blank == << " " >>
MinusOne == << "-", "1" >>
Abc == << "a", "b", "c" >>
Two == << "2" >>
Three == << "3" >>
Dollar1250 == << "$", "1", "2", ".", "5", "0" >>
DollarZero == << "$", "0" >>
Dollar12505 == << "$", "1", "2", ".", "5", "0", "5" >>
Point005 == << "0", ".", "0", "0", "5" >>
Paint == << "P", "a", "i", "n", "t" >>
Tools == << "T", "o", "o", "l", "s" >>
Primer == << "P", "r", "i", "m", "e", "r" >>
Lowes == << "L", "o", "w", "e", "'", "s" >>

\* a decimal number written as in a form field
Dec(s) == ParseFloat(s).val

\* ------------------------------------------------------------------ state
VARIABLES
    shopping_list,   \* the rows of table shopping_list
    shopping_seq,    \* sqlite_sequence of shopping_list: the largest id inserted
    budget,          \* the rows of table budget
    budget_seq,      \* sqlite_sequence of budget
    response,        \* what the last request returned to the client
    edits,           \* number of update-field requests handled
    storage_ok,      \* FALSE while statements on the database raise sqlite3.Error
    connections      \* the connections the last request opened and did not close

vars == << shopping_list, shopping_seq, budget, budget_seq, response, edits,
           storage_ok, connections >>

\* ------------------------------------------------------------- SQL values
\* a value held by a column without a fixed storage class, or bound to a "?"
Null == [type |-> "null", num |-> 0, text |-> << >>]

Integer(n) == [type |-> "integer", num |-> n, text |-> << >>]

Real(x) == [type |-> "real", num |-> x, text |-> << >>]

Text(s) == [type |-> "text", num |-> 0, text |-> s]

Max(a, b) == IF a >= b THEN a ELSE b

MaxOf(S) == CHOOSE m \in S : \A x \in S : x <= m

\* the columns of CREATE TABLE shopping_list
Columns == {"id", "category", "item", "quantity", "cost", "notes", "found", "store"}

\* a text stored into a column of INTEGER affinity: an integer when the
\* text is an integer literal, the text itself otherwise
IntegerAffinity(v) ==
    IF v.type = "text" /\ ParseInt(v.text).ok
    THEN Integer(ParseInt(v.text).val)
    ELSE v

\* the rowid AUTOINCREMENT gives the next inserted row
NewRowid(rows, seq) == Max(seq, IF rows = {} THEN 0 ELSE MaxOf({r.id : r \in rows})) + 1

\* setup_database: both tables are created empty and the initial budget of
\* 1000.00 is inserted
InitialBudget == 1000 * Scale

\* INSERT INTO shopping_list (category, item, quantity, cost, notes, store);
\* found takes its DEFAULT 0.  ok = FALSE stands for sqlite3.Error: the
\* database fails, or a CHECK constraint rejects the row
InsertItem(rows, seq, item) ==
    LET id == NewRowid(rows, seq)
        row == [id |-> id, category |-> item.category, item |-> item.item,
                quantity |-> item.quantity, cost |-> item.cost,
                notes |-> item.notes, found |-> Integer(0), store |-> item.store]
    IN  IF storage_ok /\ item.quantity >= 0 /\ item.cost >= 0
        THEN [ok |-> TRUE, rows |-> rows \cup {row}, seq |-> id]
        ELSE [ok |-> FALSE, rows |-> rows, seq |-> seq]

\* InsertBudget overwriting the table instead of appending to it
InsertBudget_Overwrite(rows, seq, amount) ==
    LET id == NewRowid(rows, seq)
    IN  IF storage_ok /\ amount >= 0
        THEN [ok |-> TRUE, rows |-> {[id |-> id, amount |-> amount]}, seq |-> id]
        ELSE [ok |-> FALSE, rows |-> rows, seq |-> seq]

\* INSERT INTO budget (amount) VALUES (?); ok = FALSE stands for
\* sqlite3.Error
InsertBudget(rows, seq, amount) ==
    LET id == NewRowid(rows, seq)
    IN  IF storage_ok /\ amount >= 0
        THEN [ok |-> TRUE, rows |-> rows \cup {[id |-> id, amount |-> amount]}, seq |-> id]
        ELSE [ok |-> FALSE, rows |-> rows, seq |-> seq]

\* the row r after SET field = v, by the affinity of the column;
\* ok = FALSE when a constraint of the column rejects the value
SetColumn(rows, r, field, v) ==
    CASE field = "quantity" ->
           [ok |-> v.type = "integer" /\ v.num >= 0, row |-> [r EXCEPT !.quantity = v.num]]
      [] field = "cost" ->
           [ok |-> v.type = "real" /\ v.num >= 0, row |-> [r EXCEPT !.cost = v.num]]
      [] field = "found" ->
           [ok |-> TRUE, row |-> [r EXCEPT !.found = IntegerAffinity(v)]]
      [] field = "notes" ->
           [ok |-> TRUE, row |-> [r EXCEPT !.notes = v]]
      [] field = "id" ->
           LET n == IntegerAffinity(v)
           IN  [ok |-> n.type = "integer"
                       /\ \A o \in rows \ {r} : o.id # n.num,
                row |-> [r EXCEPT !.id = n.num]]
      [] field = "category" ->
           [ok |-> v.type = "text", row |-> [r EXCEPT !.category = v.text]]
      [] field = "item" ->
           [ok |-> v.type = "text", row |-> [r EXCEPT !.item = v.text]]
      [] field = "store" ->
           [ok |-> v.type = "text", row |-> [r EXCEPT !.store = v.text]]

\* ExecUpdate without its WHERE clause: every row is set
ExecUpdate_NoWhere(rows, field, v, item_id) ==
    IF ~storage_ok \/ field \notin Columns THEN [ok |-> FALSE, rows |-> rows]
    ELSE LET S == {SetColumn(rows, r, field, v) : r \in rows}
         IN  IF \A s \in S : s.ok THEN [ok |-> TRUE, rows |-> {s.row : s \in S}]
             ELSE [ok |-> FALSE, rows |-> rows]

\* UPDATE shopping_list SET {field} = ? WHERE id = ?
\* ok = FALSE stands for sqlite3.Error: the database fails, there is no such
\* column, or a constraint rejects the value
ExecUpdate(rows, field, v, item_id) ==
    IF ~storage_ok \/ field \notin Columns THEN [ok |-> FALSE, rows |-> rows]
    ELSE IF \A r \in rows : r.id # item_id THEN [ok |-> TRUE, rows |-> rows]
    ELSE LET r == CHOOSE x \in rows : x.id = item_id
             s == SetColumn(rows, r, field, v)
         IN  IF s.ok THEN [ok |-> TRUE, rows |-> (rows \ {r}) \cup {s.row}]
             ELSE [ok |-> FALSE, rows |-> rows]

\* the value of NOT found: the operand is cast to a number, a text that is
\* not numeric counting as 0
SqlNot(v) ==
    LET n == IntegerAffinity(v)
    IN  IF v.type = "null" THEN Null
        ELSE IF n.type = "text" THEN Integer(1)
        ELSE IF n.num = 0 THEN Integer(1) ELSE Integer(0)

\* UPDATE shopping_list SET found = NOT found WHERE id = ?
ExecToggle(rows, item_id) ==
    {IF r.id = item_id THEN [r EXCEPT !.found = SqlNot(r.found)] ELSE r : r \in rows}

\* DELETE FROM shopping_list WHERE id = ?
ExecDelete(rows, item_id) == {r \in rows : r.id # item_id}

\* ---------------------------------------------------------------- queries
\* SELECT amount FROM budget ORDER BY id DESC LIMIT 1, 0.0 without a row;
\* a sqlite3.Error is logged and 0.0 returned
get_budget(brows) ==
    IF ~storage_ok THEN 0
    ELSE IF brows = {} THEN 0
    ELSE (CHOOSE b \in brows : \A o \in brows : o.id <= b.id).amount

\* SUM(cost * quantity) over a set of rows; the products are fixed-point
RECURSIVE SumCost(_)
SumCost(rows) ==
    IF rows = {} THEN 0
    ELSE LET r == CHOOSE x \in rows : TRUE
         IN  r.cost * r.quantity + SumCost(rows \ {r})

\* get_total_cost summing the unit costs only
get_total_cost_NoQuantity(rows) ==
    IF ~storage_ok THEN 0 ELSE SumCost({[r EXCEPT !.quantity = 1] : r \in rows})

\* SELECT SUM(cost * quantity) FROM shopping_list, 0.0 for NULL or 0;
\* a sqlite3.Error is logged and 0.0 returned
get_total_cost(rows) == IF ~storage_ok THEN 0 ELSE SumCost(rows)

\* the storage classes in ascending ORDER BY position
ClassRank(v) == CASE v.type = "null" -> 0 [] v.type \in {"integer", "real"} -> 1 [] v.type = "text" -> 2

\* v sorts strictly before w under ORDER BY ... ASC
SqlLess(v, w) ==
    IF ClassRank(v) # ClassRank(w) THEN ClassRank(v) < ClassRank(w)
    ELSE IF v.type = "text" THEN StrLess(v.text, w.text)
    ELSE v.num < w.num

\* ORDER BY found ASC, category ASC, id DESC
RowBefore(r, o) ==
    IF r.found # o.found THEN SqlLess(r.found, o.found)
    ELSE IF r.category # o.category THEN StrLess(r.category, o.category)
    ELSE r.id > o.id

RECURSIVE SqlOrdered(_)
SqlOrdered(rows) ==
    IF rows = {} THEN << >>
    ELSE LET m == CHOOSE r \in rows : \A o \in rows \ {r} : RowBefore(r, o)
         IN  << m >> \o SqlOrdered(rows \ {m})

\* fetch_shopping_list: the rows in query order, grouped into a dict from
\* category to the list of its rows; a sqlite3.Error is logged and the empty
\* dict returned
fetch_shopping_list(rows) ==
    LET items == SqlOrdered(rows)
    IN  IF ~storage_ok THEN [c \in {} |-> << >>]
        ELSE [c \in {r.category : r \in rows} |->
                 SelectSeq(items, LAMBDA r : r.category = c)]

\* ----------------------------------------------------------------- render
\* Python < on the sort key (x['found'], -x['id']) of two rows whose found
\* values have the same Python type
KeyLess(r, o) ==
    IF r.found # o.found
    THEN IF r.found.type = "text" THEN StrLess(r.found.text, o.found.text)
         ELSE r.found.num < o.found.num
    ELSE -r.id < -o.id

\* sorted(items, key=...) raises TypeError when it compares a str with an int
SortRaises(items) ==
    \E i, j \in 1..Len(items) : items[i].found.type # items[j].found.type

\* bool(item['found'])
Truthy(v) ==
    CASE v.type = "null" -> FALSE
      [] v.type = "text" -> v.text # << >>
      [] OTHER -> v.num # 0

\* the card of one item: its toggle and remove buttons carry its id
Card(r) == [id |-> r.id, checked |-> Truthy(r.found)]

RECURSIVE SortedKeys(_)
SortedKeys(keys) ==
    IF keys = {} THEN << >>
    ELSE LET m == CHOOSE k \in keys : \A o \in keys \ {k} : StrLess(k, o)
         IN  << m >> \o SortedKeys(keys \ {m})

\* one category-section: its title and its cards in sorted order
Section(category, items) ==
    LET sorted_items == SortSeq(items, KeyLess)
    IN  [category |-> category,
         cards |-> [i \in 1..Len(sorted_items) |-> Card(sorted_items[i])]]

NoTable == [present |-> FALSE, raised |-> FALSE, empty_state |-> FALSE, sections |-> << >>]

\* ShoppingTable(categories): the "No items yet!" placeholder for an empty
\* dict, else one section per category in sorted order of the keys;
\* raised = TRUE stands for the TypeError of sorted()
ShoppingTable(categories) ==
    IF DOMAIN categories = {}
    THEN [present |-> TRUE, raised |-> FALSE, empty_state |-> TRUE, sections |-> << >>]
    ELSE IF \E c \in DOMAIN categories : SortRaises(categories[c])
    THEN [present |-> FALSE, raised |-> TRUE, empty_state |-> FALSE, sections |-> << >>]
    ELSE LET keys == SortedKeys(DOMAIN categories)
         IN  [present |-> TRUE, raised |-> FALSE, empty_state |-> FALSE,
              sections |-> [i \in 1..Len(keys) |-> Section(keys[i], categories[keys[i]])]]

NoBudget == [present |-> FALSE, budget |-> 0, total_cost |-> 0, remaining |-> 0, status |-> ""]

\* BudgetStatus styling a remaining of exactly 0 as negative
BudgetStatus_Strict(brows, rows) ==
    LET budget_ == get_budget(brows)
        total_cost == get_total_cost(rows)
        remaining == budget_ - total_cost
    IN  [present |-> TRUE, budget |-> budget_, total_cost |-> total_cost,
         remaining |-> remaining,
         status |-> IF remaining > 0 THEN "success" ELSE "error"]

\* BudgetStatus(): budget, total cost and remaining, the remaining styled
\* text-success or text-error
BudgetStatus(brows, rows) ==
    LET budget_ == get_budget(brows)
        total_cost == get_total_cost(rows)
        remaining == budget_ - total_cost
    IN  [present |-> TRUE, budget |-> budget_, total_cost |-> total_cost,
         remaining |-> remaining,
         status |-> IF remaining >= 0 THEN "success" ELSE "error"]

\* ------------------------------------------------------------- responses
\* Div(message, cls="error-message")
ErrorMessage(handler, message) ==
    [handler |-> handler, kind |-> "error-message", error |-> message,
     budget_status |-> NoBudget, table |-> NoTable, modal |-> FALSE]

\* an exception that leaves the handler: the framework answers, no fragment
\* of the handler is returned
Unhandled(handler, exception) ==
    [handler |-> handler, kind |-> "exception", error |-> exception,
     budget_status |-> NoBudget, table |-> NoTable, modal |-> FALSE]

\* ShoppingContainer(fetch_shopping_list()): Div id="shopping-container"
\* around the ShoppingTable
ShoppingContainer(handler, rows, modal) ==
    LET table == ShoppingTable(fetch_shopping_list(rows))
    IN  IF table.raised THEN Unhandled(handler, "TypeError")
        ELSE [handler |-> handler, kind |-> "shopping-container", error |-> "",
              budget_status |-> NoBudget, table |-> table, modal |-> modal]

\* Div id="content-container": BudgetStatus, the add button, the
\* ShoppingContainer and the empty modal slot
ContentContainer(handler, kind, brows, rows) ==
    LET table == ShoppingTable(fetch_shopping_list(rows))
    IN  IF table.raised THEN Unhandled(handler, "TypeError")
        ELSE [handler |-> handler, kind |-> kind, error |-> "",
              budget_status |-> BudgetStatus(brows, rows), table |-> table,
              modal |-> TRUE]

\* ----------------------------------------------------------------- inputs
\* the field names a client puts in /update/{item_id}/{field}: the columns,
\* and a name that is no column
Fields == Columns \cup {"bogus"}

\* the values a client posts for a field: an empty and a blank one for every
\* field, and for the fields below a negative number, a word and a valid value
UpdateValues(field) ==
    {Empty, Blank} \cup
    CASE field = "quantity" -> {MinusOne, Abc, Three}
      [] field = "cost" -> {MinusOne, Abc, Dollar1250}
      [] field = "found" -> {MinusOne, Abc}
      [] field = "id" -> {Abc, Two}
      [] field = "category" -> {Tools}
      [] field = "bogus" -> {Abc}
      [] OTHER -> {}

\* the item ids a client names; MaxId + 1 is never one AUTOINCREMENT gave
ItemIds == 1..(MaxId + 1)

\* the forms a client posts to /add_item, the numbers already cast
AddForms ==
    [category : {Paint}, item : {Primer}, quantity : {-1, 2},
     cost : {Dec(<< "-", "0", ".", "5" >>), Dec(<< "1", ".", "5", "0", "6" >>)},
     notes : {Null}, store : {Lowes}]

\* the texts a client posts to /update/budget/amount
BudgetValues == {Blank, MinusOne, Abc, DollarZero}

\* the numbers a client posts to /set_budget
BudgetAmounts == {Dec(MinusOne), Dec(<< "0" >>)}

\* --------------------------------------------------------------- handlers
\* the connections get_db_connection() opened for a request and nothing
\* closed: the "with" block of a sqlite3 connection commits or rolls back
\* and leaves the connection open, and no handler calls close(), so each
\* stays open until the garbage collector finalizes it.  held counts the
\* ones a local variable of the handler still names when it returns its
\* response, dropped the ones opened by get_budget, get_total_cost and
\* fetch_shopping_list, which have returned
Opened(held, dropped) == [held |-> held, dropped |-> dropped]

\* ShoppingItem(**form): Field(ge=0) on quantity and cost, then validate_cost
\* rounds the cost; ok = FALSE stands for pydantic's ValidationError
ShoppingItem(form) ==
    IF form.quantity >= 0 /\ form.cost >= 0
    THEN [ok |-> TRUE, item |-> [form EXCEPT !.cost = Round2(form.cost)]]
    ELSE [ok |-> FALSE, item |-> form]

\* GET /
home(brows, rows) ==
    [response |-> ContentContainer("home", "page", brows, rows),
     connections |-> Opened(0, 3)]

\* POST /add_item
add_item(rows, seq, form) ==
    LET v == ShoppingItem(form)
        ins == InsertItem(rows, seq, v.item)
    IN  IF ~v.ok
        THEN [rows |-> rows, seq |-> seq,
              response |-> Unhandled("add_item", "ValidationError"),
              connections |-> Opened(0, 0)]
        ELSE IF ~ins.ok
        THEN [rows |-> rows, seq |-> seq,
              response |-> ErrorMessage("add_item", "Failed to add item"),
              connections |-> Opened(1, 0)]
        ELSE [rows |-> ins.rows, seq |-> ins.seq,
              response |-> ShoppingContainer("add_item", ins.rows, TRUE),
              connections |-> Opened(1, 1)]

\* POST /update/budget/amount
update_budget_inline(brows, bseq, rows, value) ==
    LET p == ParseFloat(Strip(RemoveDollar(value)))
        ins == InsertBudget(brows, bseq, p.val)
    IN  IF ~p.ok
        THEN [rows |-> brows, seq |-> bseq,
              response |-> ErrorMessage("update_budget_inline", "Invalid budget amount"),
              connections |-> Opened(0, 0)]
        ELSE IF p.val < 0
        THEN [rows |-> brows, seq |-> bseq,
              response |-> ErrorMessage("update_budget_inline", "Budget cannot be negative"),
              connections |-> Opened(0, 0)]
        ELSE IF ~ins.ok
        THEN [rows |-> brows, seq |-> bseq,
              response |-> ErrorMessage("update_budget_inline", "Failed to update the budget"),
              connections |-> Opened(1, 0)]
        ELSE [rows |-> ins.rows, seq |-> ins.seq,
              response |-> ContentContainer("update_budget_inline", "content-container",
                                            ins.rows, rows),
              connections |-> Opened(1, 3)]

\* POST /set_budget
update_budget(brows, bseq, rows, amount) ==
    LET ins == InsertBudget(brows, bseq, amount)
    IN  IF amount < 0
        THEN [rows |-> brows, seq |-> bseq,
              response |-> ErrorMessage("update_budget", "Budget cannot be negative"),
              connections |-> Opened(0, 0)]
        ELSE IF ~ins.ok
        THEN [rows |-> brows, seq |-> bseq,
              response |-> ErrorMessage("update_budget", "Failed to update budget"),
              connections |-> Opened(1, 0)]
        ELSE [rows |-> ins.rows, seq |-> ins.seq,
              response |-> ShoppingContainer("update_budget", rows, FALSE),
              connections |-> Opened(1, 1)]

\* POST /toggle_found/{item_id}
toggle_found(rows, item_id) ==
    LET new == ExecToggle(rows, item_id)
    IN  IF ~storage_ok
        THEN [rows |-> rows,
              response |-> ErrorMessage("toggle_found", "Failed to update item status"),
              connections |-> Opened(1, 0)]
        ELSE [rows |-> new,
              response |-> ShoppingContainer("toggle_found", new, FALSE),
              connections |-> Opened(1, 1)]

\* POST /remove_item/{item_id}
remove_item(rows, item_id) ==
    LET new == ExecDelete(rows, item_id)
    IN  IF ~storage_ok
        THEN [rows |-> rows,
              response |-> ErrorMessage("remove_item", "Failed to remove item"),
              connections |-> Opened(1, 0)]
        ELSE [rows |-> new,
              response |-> ShoppingContainer("remove_item", new, FALSE),
              connections |-> Opened(1, 1)]

\* the inline edit form: it posts its value to /update/{item_id}/{field}
Form(handler) ==
    [handler |-> handler, kind |-> "edit-form", error |-> "",
     budget_status |-> NoBudget, table |-> NoTable, modal |-> FALSE]

\* GET /edit/{item_id}/{field}: SELECT {field} FROM shopping_list WHERE id = ?
\* raises sqlite3.Error for a name that is no column
edit_form(rows, item_id, field) ==
    IF ~storage_ok \/ field \notin Columns
    THEN [response |-> ErrorMessage("edit_form", "Error loading edit form"),
          connections |-> Opened(1, 0)]
    ELSE IF \A r \in rows : r.id # item_id
    THEN [response |-> ErrorMessage("edit_form", "Item not found"),
          connections |-> Opened(1, 0)]
    ELSE [response |-> Form("edit_form"), connections |-> Opened(1, 0)]

\* ValidateField without the test for a negative number
ValidateField_NoNegative(field, value) ==
    IF Strip(value) = << >> THEN [ok |-> FALSE, error |-> "cannot be empty", param |-> Null]
    ELSE IF field = "cost"
    THEN LET p == ParseFloat(Strip(RemoveDollar(value)))
         IN  IF ~p.ok THEN [ok |-> FALSE, error |-> "Invalid format", param |-> Null]
             ELSE [ok |-> TRUE, error |-> "", param |-> Real(p.val)]
    ELSE IF field = "quantity"
    THEN LET p == ParseInt(value)
         IN  IF ~p.ok THEN [ok |-> FALSE, error |-> "Invalid format", param |-> Null]
             ELSE [ok |-> TRUE, error |-> "", param |-> Integer(p.val)]
    ELSE [ok |-> TRUE, error |-> "", param |-> Text(value)]

\* the validation of update_field: the value bound to the statement, or the
\* message of the error fragment it returns instead
ValidateField(field, value) ==
    IF Strip(value) = << >> THEN [ok |-> FALSE, error |-> "cannot be empty", param |-> Null]
    ELSE IF field = "cost"
    THEN LET p == ParseFloat(Strip(RemoveDollar(value)))
         IN  IF ~p.ok THEN [ok |-> FALSE, error |-> "Invalid format", param |-> Null]
             ELSE IF p.val < 0 THEN [ok |-> FALSE, error |-> "cannot be negative", param |-> Null]
             ELSE [ok |-> TRUE, error |-> "", param |-> Real(p.val)]
    ELSE IF field = "quantity"
    THEN LET p == ParseInt(value)
         IN  IF ~p.ok THEN [ok |-> FALSE, error |-> "Invalid format", param |-> Null]
             ELSE IF p.val < 0 THEN [ok |-> FALSE, error |-> "cannot be negative", param |-> Null]
             ELSE [ok |-> TRUE, error |-> "", param |-> Integer(p.val)]
    ELSE [ok |-> TRUE, error |-> "", param |-> Text(value)]

\* POST /update/{item_id}/{field}
update_field(rows, item_id, field, value) ==
    LET v == ValidateField(field, value)
        upd == ExecUpdate(rows, field, v.param, item_id)
    IN  IF ~v.ok
        THEN [rows |-> rows, response |-> ErrorMessage("update_field", v.error),
              connections |-> Opened(0, 0)]
        ELSE IF ~upd.ok
        THEN [rows |-> rows,
              response |-> ErrorMessage("update_field", "Failed to update value"),
              connections |-> Opened(1, 0)]
        ELSE [rows |-> upd.rows,
              response |-> ShoppingContainer("update_field", upd.rows, FALSE),
              connections |-> Opened(1, 1)]

\* ---------------------------------------------------------------- actions
\* setup_database has run: it closes its connection before it returns
Init ==
    /\ shopping_list = {}
    /\ shopping_seq = 0
    /\ budget = {[id |-> 1, amount |-> InitialBudget]}
    /\ budget_seq = 1
    /\ response = [handler |-> "setup_database", kind |-> "none", error |-> "",
                   budget_status |-> NoBudget, table |-> NoTable, modal |-> FALSE]
    /\ edits = 0
    /\ storage_ok = TRUE
    /\ connections = Opened(0, 0)

Home ==
    /\ LET out == home(budget, shopping_list)
       IN  /\ response' = out.response
           /\ connections' = out.connections
    /\ UNCHANGED << shopping_list, shopping_seq, budget, budget_seq, edits, storage_ok >>

AddItem(form) ==
    /\ NewRowid(shopping_list, shopping_seq) <= MaxId
    /\ LET out == add_item(shopping_list, shopping_seq, form)
       IN  /\ shopping_list' = out.rows
           /\ shopping_seq' = out.seq
           /\ response' = out.response
           /\ connections' = out.connections
    /\ UNCHANGED << budget, budget_seq, edits, storage_ok >>

UpdateBudgetInline(value) ==
    /\ NewRowid(budget, budget_seq) <= MaxBudgetId
    /\ LET out == update_budget_inline(budget, budget_seq, shopping_list, value)
       IN  /\ budget' = out.rows
           /\ budget_seq' = out.seq
           /\ response' = out.response
           /\ connections' = out.connections
    /\ UNCHANGED << shopping_list, shopping_seq, edits, storage_ok >>

UpdateBudget(amount) ==
    /\ NewRowid(budget, budget_seq) <= MaxBudgetId
    /\ LET out == update_budget(budget, budget_seq, shopping_list, amount)
       IN  /\ budget' = out.rows
           /\ budget_seq' = out.seq
           /\ response' = out.response
           /\ connections' = out.connections
    /\ UNCHANGED << shopping_list, shopping_seq, edits, storage_ok >>

ToggleFound(item_id) ==
    /\ LET out == toggle_found(shopping_list, item_id)
       IN  /\ shopping_list' = out.rows
           /\ response' = out.response
           /\ connections' = out.connections
    /\ UNCHANGED << shopping_seq, budget, budget_seq, edits, storage_ok >>

RemoveItem(item_id) ==
    /\ LET out == remove_item(shopping_list, item_id)
       IN  /\ shopping_list' = out.rows
           /\ response' = out.response
           /\ connections' = out.connections
    /\ UNCHANGED << shopping_seq, budget, budget_seq, edits, storage_ok >>

EditForm(item_id, field) ==
    /\ LET out == edit_form(shopping_list, item_id, field)
       IN  /\ response' = out.response
           /\ connections' = out.connections
    /\ UNCHANGED << shopping_list, shopping_seq, budget, budget_seq, edits, storage_ok >>

UpdateField(item_id, field, value) ==
    /\ edits < MaxEdits
    /\ edits' = edits + 1
    /\ LET out == update_field(shopping_list, item_id, field, value)
       IN  /\ shopping_list' = out.rows
           /\ response' = out.response
           /\ connections' = out.connections
    /\ UNCHANGED << shopping_seq, budget, budget_seq, storage_ok >>

Next ==
    \/ Home
    \/ \E form \in AddForms : AddItem(form)
    \/ \E value \in BudgetValues : UpdateBudgetInline(value)
    \/ \E amount \in BudgetAmounts : UpdateBudget(amount)
    \/ \E item_id \in ItemIds : ToggleFound(item_id)
    \/ \E item_id \in ItemIds : RemoveItem(item_id)
    \/ \E item_id \in ItemIds, field \in Fields : EditForm(item_id, field)
    \/ \E item_id \in ItemIds, field \in Fields :
          \E value \in UpdateValues(field) : UpdateField(item_id, field, value)

Spec == Init /\ [][Next]_vars

\* --------------------------------------------------------------- failures
\* the database starts to fail: the file is damaged or a table is gone, and
\* every statement raises sqlite3.Error
StorageFails ==
    /\ storage_ok
    /\ storage_ok' = FALSE
    /\ UNCHANGED << shopping_list, shopping_seq, budget, budget_seq, response, edits,
                    connections >>

\* the database works again
StorageRecovers ==
    /\ ~storage_ok
    /\ storage_ok' = TRUE
    /\ UNCHANGED << shopping_list, shopping_seq, budget, budget_seq, response, edits,
                    connections >>

\* the requests of Next, with a database that may fail between them
NextFaults == Next \/ StorageFails \/ StorageRecovers

SpecFaults == Init /\ [][NextFaults]_vars

\* ------------------------------------------------------- further inputs
\* a cost with three fractional digits, posted to /update/{item_id}/cost
UnroundedCosts == {Dollar12505}

\* an amount with three fractional digits, posted to /update/budget/amount
UnroundedValues == {Point005}

\* the same amount posted to /set_budget, already cast
UnroundedAmounts == {Dec(Point005)}

\* an add-item form submitted with its category, item and store left empty
EmptyTextForms ==
    [category : {Empty}, item : {Empty}, quantity : {2},
     cost : {Dec(<< "1", ".", "5", "0", "6" >>)}, notes : {Null}, store : {Empty}]

\* the requests of Next, and the ones carrying the inputs above
NextInputs ==
    \/ Next
    \/ \E form \in EmptyTextForms : AddItem(form)
    \/ \E value \in UnroundedValues : UpdateBudgetInline(value)
    \/ \E amount \in UnroundedAmounts : UpdateBudget(amount)
    \/ \E item_id \in ItemIds, value \in UnroundedCosts :
          UpdateField(item_id, "cost", value)

SpecInputs == Init /\ [][NextInputs]_vars

\* ----------------------------------------------------------------- claims
\* both tables with their id counters
Store == << shopping_list, shopping_seq, budget, budget_seq >>

\* the fragments that report a failure of the storage layer
StorageErrors ==
    {"Failed to add item", "Failed to update value", "Failed to update budget",
     "Failed to update the budget"}

\* a posted text that reads as a negative number
ReadsNegative(value) ==
    LET p == ParseFloat(Strip(RemoveDollar(value))) IN p.ok /\ p.val < 0

\* every stored item has quantity >= 0 and cost >= 0
C1_NonNegative == \A r \in shopping_list : r.quantity >= 0 /\ r.cost >= 0

\* in the current state, an add or an update of quantity/cost that carries a
\* negative number leaves the store as it is and is turned down by
\* validation, not by the storage
C1_Rejected ==
    /\ \A form \in AddForms :
          form.quantity < 0 \/ form.cost < 0 =>
             LET out == add_item(shopping_list, shopping_seq, form)
             IN  /\ out.rows = shopping_list
                 /\ out.seq = shopping_seq
                 /\ out.response.kind \in {"error-message", "exception"}
                 /\ out.response.error \notin StorageErrors
    /\ \A item_id \in ItemIds, field \in {"quantity", "cost"} :
          \A value \in UpdateValues(field) :
             ReadsNegative(value) =>
                LET out == update_field(shopping_list, item_id, field, value)
                IN  /\ out.rows = shopping_list
                    /\ out.response.kind = "error-message"
                    /\ out.response.error = "cannot be negative"

\* C1: in every reachable state every stored item has quantity >= 0 and
\* cost >= 0, and a request carrying a negative quantity or cost (add, or
\* update of quantity/cost) is rejected before any write: the store is
\* unchanged by it.
C1_Theorem == C1_NonNegative /\ C1_Rejected

\* an update of quantity with "-1" was turned down while an item is stored
C1_Witness ==
    /\ shopping_list # {}
    /\ response.handler = "update_field"
    /\ response.error = "cannot be negative"

\* the budget record with the highest id
LatestBudget(brows) == CHOOSE b \in brows : \A o \in brows : o.id <= b.id

\* rows is the budget table with one record of this amount appended above
\* every id it holds
Appended(rows, amount) ==
    \E b \in rows \ budget :
       /\ rows = budget \cup {b}
       /\ b.amount = amount
       /\ \A o \in budget : o.id < b.id

\* in the current state, a set-budget request with a valid amount appends
\* one record and any other one leaves the table as it is
C2_SetBudget ==
    /\ \A value \in BudgetValues :
          LET out == update_budget_inline(budget, budget_seq, shopping_list, value)
              p == ParseFloat(Strip(RemoveDollar(value)))
          IN  IF p.ok /\ p.val >= 0 THEN Appended(out.rows, p.val) ELSE out.rows = budget
    /\ \A amount \in BudgetAmounts :
          LET out == update_budget(budget, budget_seq, shopping_list, amount)
          IN  IF amount >= 0 THEN Appended(out.rows, amount) ELSE out.rows = budget

\* no step removes or changes a budget record, and only the set-budget
\* handlers add one
C2_AppendOnly ==
    /\ budget \subseteq budget'
    /\ Cardinality(budget') <= Cardinality(budget) + 1
    /\ budget' # budget =>
          /\ response'.handler \in {"update_budget_inline", "update_budget"}
          /\ \A b \in budget' \ budget : \A o \in budget : o.id < b.id

C2_Current ==
    /\ get_budget({}) = 0
    /\ budget # {} => get_budget(budget) = LatestBudget(budget).amount
    /\ response.budget_status.present =>
          response.budget_status.budget = LatestBudget(budget).amount

\* C2: the budget table is an append-only log: every successful set-budget
\* request adds exactly one record with a new highest id and leaves the
\* earlier records present and unchanged, and get-current returns the amount
\* of the record with the highest id.
C2_Theorem == [](C2_Current /\ C2_SetBudget) /\ [][C2_AppendOnly]_vars

\* a second budget record was appended and is the one shown as current
C2_Witness ==
    /\ Cardinality(budget) = 2
    /\ response.handler = "update_budget_inline"
    /\ response.budget_status.present
    /\ response.budget_status.budget = 0
    /\ [id |-> 1, amount |-> InitialBudget] \in budget

\* the sum of cost * quantity over the rows, taken in ascending id order
RECURSIVE SumById(_)
SumById(rows) ==
    IF rows = {} THEN 0
    ELSE LET r == CHOOSE x \in rows : \A o \in rows : x.id <= o.id
         IN  r.cost * r.quantity + SumById(rows \ {r})

C3_Total ==
    /\ get_total_cost(shopping_list) = SumById(shopping_list)
    /\ shopping_list = {} => get_total_cost(shopping_list) = 0
    /\ response.budget_status.present =>
          response.budget_status.total_cost = SumById(shopping_list)

\* in the current state, a successful add stores the posted quantity and the
\* validated cost
C3_Added ==
    \A form \in AddForms :
       LET out == add_item(shopping_list, shopping_seq, form)
       IN  \A r \in out.rows \ shopping_list :
              r.quantity = form.quantity /\ r.cost = Round2(form.cost)

C3_Deltas ==
    /\ response'.handler = "add_item" /\ shopping_list' # shopping_list =>
          \E r \in shopping_list' \ shopping_list :
             /\ shopping_list' = shopping_list \cup {r}
             /\ get_total_cost(shopping_list')
                   = get_total_cost(shopping_list) + r.quantity * r.cost
    /\ response'.handler = "remove_item" /\ shopping_list' # shopping_list =>
          \E r \in shopping_list \ shopping_list' :
             /\ shopping_list' = shopping_list \ {r}
             /\ get_total_cost(shopping_list')
                   = get_total_cost(shopping_list) - r.cost * r.quantity
    /\ response'.handler = "toggle_found" =>
          get_total_cost(shopping_list') = get_total_cost(shopping_list)

\* C3: total cost equals the sum of cost * quantity over exactly the stored
\* items (0 when there are none); a successful add raises it by the item's
\* quantity * cost, a remove of an existing item lowers it by that item's
\* cost * quantity, and toggle-found leaves it unchanged.
C3_Theorem == [](C3_Total /\ C3_Added) /\ [][C3_Deltas]_vars

\* the page shows a total cost of 2 * 1.51 for one stored item
C3_Witness ==
    /\ Cardinality(shopping_list) = 1
    /\ response.handler = "home"
    /\ response.budget_status.present
    /\ response.budget_status.total_cost = 2 * Dec(<< "1", ".", "5", "1" >>)

\* C4: the budget summary shows remaining = (amount of the latest budget
\* record) - (total cost of all stored items), styled positive exactly when
\* remaining >= 0 and negative exactly when remaining < 0; with an empty
\* store remaining is the budget.
C4_Theorem ==
    response.budget_status.present =>
       LET bs == response.budget_status
           remaining == LatestBudget(budget).amount - SumById(shopping_list)
       IN  /\ bs.remaining = remaining
           /\ bs.status = "success" <=> remaining >= 0
           /\ bs.status = "error" <=> remaining < 0
           /\ shopping_list = {} => bs.remaining = bs.budget

\* a summary with a negative remaining: budget 0 against a total of 3.02
C4_Witness ==
    /\ response.budget_status.present
    /\ response.budget_status.status = "error"
    /\ response.budget_status.remaining < 0
    /\ shopping_list # {}

\* C5: in every reachable state, applying toggle-found twice to any item
\* restores its stored found value, and so the whole store.
C5_ToggleTwice ==
    \A item_id \in ItemIds :
       toggle_found(toggle_found(shopping_list, item_id).rows, item_id).rows
          = shopping_list

Known(item_id) == \E r \in shopping_list : r.id = item_id

C6_Steps ==
    /\ \A item_id \in ItemIds :
          /\ response'.handler \in {"toggle_found", "remove_item"}
          /\ ~Known(item_id)
          /\ ToggleFound(item_id) \/ RemoveItem(item_id)
          =>
             /\ UNCHANGED Store
             /\ response'.kind = "shopping-container"
             /\ response'.table.present
    /\ \A item_id \in ItemIds :
          response'.handler = "remove_item" /\ Known(item_id) /\ RemoveItem(item_id) =>
             /\ shopping_list' = {r \in shopping_list : r.id # item_id}
             /\ Cardinality(shopping_list') = Cardinality(shopping_list) - 1
             /\ budget' = budget

\* C6: a toggle-found or remove request whose id matches no stored item
\* leaves both tables unchanged and returns the normal list fragment, not an
\* error; a remove of an existing id deletes exactly that row and leaves
\* every other item and every budget record unchanged.
C6_UnknownIdNoOp == [][C6_Steps]_vars

\* the value of an update-field request fails the validation the claim names
Invalid(field, value) ==
    \/ Strip(value) = << >>
    \/ field = "quantity" /\ (~ParseInt(value).ok \/ ParseInt(value).val < 0)
    \/ field = "cost" /\ LET p == ParseFloat(Strip(RemoveDollar(value)))
                         IN  ~p.ok \/ p.val < 0

\* C7: an update-field request whose value is empty or blank, or whose value
\* for quantity/cost is unparsable or negative, returns an error fragment
\* and leaves every stored row unchanged; only a request that passes
\* validation changes the row, and it changes only the named field of the
\* item with the given id.
C7_Theorem ==
    \A item_id \in ItemIds, field \in Fields :
       \A value \in UpdateValues(field) :
          LET out == update_field(shopping_list, item_id, field, value)
          IN  /\ Invalid(field, value) =>
                    /\ out.response.kind = "error-message"
                    /\ out.rows = shopping_list
              /\ out.rows # shopping_list =>
                    /\ ~Invalid(field, value)
                    /\ \E r \in shopping_list, n \in out.rows :
                          /\ r.id = item_id
                          /\ out.rows = (shopping_list \ {r}) \cup {n}
                          /\ \A c \in Columns \ {field} : n[c] = r[c]

\* an update was turned down as unparsable while two items are stored
C7_Witness ==
    /\ Cardinality(shopping_list) = 2
    /\ response.handler = "update_field"
    /\ response.kind = "error-message"
    /\ response.error = "Invalid format"

\* the list view of the current store
View == ShoppingTable(fetch_shopping_list(shopping_list))

\* the cards of one section list exactly the rows of its category, the
\* unfound ones first and each group in descending id order
SectionOrdered(section) ==
    LET cards == section.cards
        rows == {r \in shopping_list : r.category = section.category}
    IN  /\ Len(cards) = Cardinality(rows)
        /\ {cards[i].id : i \in 1..Len(cards)} = {r.id : r \in rows}
        /\ \A i \in 1..Len(cards) :
              \E r \in rows : r.id = cards[i].id /\ cards[i].checked = Truthy(r.found)
        /\ \A i, j \in 1..Len(cards) :
              i < j => /\ cards[i].checked => cards[j].checked
                       /\ cards[i].checked = cards[j].checked => cards[i].id > cards[j].id

\* C8: for every store state the list view renders one section per distinct
\* category in ascending order of the category name, each listing exactly
\* its category's items, unfound before found and in descending id order
\* within both groups; an empty store renders the placeholder.
C8_ViewOrdered ==
    /\ View.present
    /\ View.empty_state <=> shopping_list = {}
    /\ Len(View.sections) = Cardinality({r.category : r \in shopping_list})
    /\ {View.sections[i].category : i \in 1..Len(View.sections)}
          = {r.category : r \in shopping_list}
    /\ \A i, j \in 1..Len(View.sections) :
          i < j => StrLess(View.sections[i].category, View.sections[j].category)
    /\ \A i \in 1..Len(View.sections) : SectionOrdered(View.sections[i])

C9_Steps ==
    \A form \in AddForms :
       response'.handler = "add_item" /\ AddItem(form) /\ shopping_list' # shopping_list =>
          \E r \in shopping_list' \ shopping_list :
             /\ r.found = Integer(0)
             /\ r.id > shopping_seq
             /\ \A o \in shopping_list : r.id > o.id
             /\ response'.table.present
             /\ \E i \in 1..Len(response'.table.sections) :
                   /\ response'.table.sections[i].category = r.category
                   /\ response'.table.sections[i].cards[1].id = r.id

\* C9: after any prior requests, a successfully added item is stored
\* unfound with an id greater than every id assigned before, and the list
\* view shows it as the first item of its category's section.
C9_NewItemFirst == [][C9_Steps]_vars

\* the handlers that write to the store
Mutating == {"add_item", "update_budget", "update_budget_inline", "toggle_found",
             "remove_item", "update_field"}

\* C10: every successful mutating request returns a fragment that contains
\* the budget summary and the grouped list, both computed from the store
\* after the mutation.
C10_BudgetAndList ==
    response.handler \in Mutating /\ response.kind \notin {"error-message", "exception"} =>
       /\ response.table.present
       /\ response.table = View
       /\ response.budget_status.present
       /\ response.budget_status = BudgetStatus(budget, shopping_list)

\* the field names the update-field and edit-form endpoints are meant for
KnownFields == {"category", "item", "quantity", "cost", "notes", "store", "found"}

\* C11: the update-field and edit-form endpoints act only on the field names
\* category, item, quantity, cost, notes, store and found: in every
\* reachable state a request naming any other field (such as id) gets no
\* edit form and changes no stored row, so no item's id changes.
C11_ClosedFieldSet ==
    \A item_id \in ItemIds, field \in Fields \ KnownFields :
       /\ edit_form(shopping_list, item_id, field).response.kind # "edit-form"
       /\ \A value \in UpdateValues(field) :
             update_field(shopping_list, item_id, field, value).rows = shopping_list

\* a decimal with at most 2 fractional digits
TwoDigits(x) == x % Cent = 0

\* C12: in every reachable state every stored item cost and every stored
\* budget amount has at most 2 fractional digits, whichever of add-item,
\* update-field on cost and the two set-budget endpoints wrote it.
C12_TwoFractionalDigits ==
    /\ \A r \in shopping_list : TwoDigits(r.cost)
    /\ \A b \in budget : TwoDigits(b.amount)

\* C13: in every reachable state every stored item has non-empty category,
\* item and store text, and an update-field request with an empty value for
\* one of the three leaves the rows as they are.
C13_NonEmptyText ==
    /\ \A r \in shopping_list :
          r.category # << >> /\ r.item # << >> /\ r.store # << >>
    /\ \A item_id \in ItemIds, field \in {"category", "item", "store"} :
          update_field(shopping_list, item_id, field, Empty).rows = shopping_list

\* a request is handled while the database fails, and it runs a statement:
\* it opens a connection
FailedRequest ==
    /\ ~storage_ok
    /\ ~storage_ok'
    /\ connections'.held + connections'.dropped > 0

C14_Steps ==
    FailedRequest =>
       /\ response'.kind = "error-message"
       /\ ~response'.budget_status.present
       /\ ~response'.table.present

\* C14: whenever the storage fails during a request, in a read (current
\* budget, total cost, list) or in a write, the response is an error
\* fragment and not a page or list showing data: a failure is never shown
\* as a budget of 0, a total cost of 0 or an empty list.
C14_FailureSurfaced == [][C14_Steps]_vars

\* C15: when a request's response is produced, on its success path and on
\* every failure path, every connection opened for the request has been
\* closed: none is left open.
C15_ConnectionsClosed == connections.held = 0 /\ connections.dropped = 0

====
